---- MODULE Spec2Model ----
(***************************************************************************)
(* State-machine model of two scripts of the package-management            *)
(* repository:                                                             *)
(*   - archive/pip-cleanup-versions.py  (the retention pruner)             *)
(*   - archive/stata-print-csv.py       (the ado inventory reporter)       *)
(*                                                                         *)
(* Python strings are modelled as sequences of one-character strings, so   *)
(* that the regular expressions, str.lower(), str.strip(), str.split()     *)
(* and the string comparison used by sorted() are computed character by    *)
(* character, the way the interpreter computes them.                       *)
(***************************************************************************)
EXTENDS Integers, Sequences, FiniteSets, TLC

VARIABLES
    \* ---- pip-cleanup-versions.py ----
    dir,            \* names of the files present in packages_dir
    pc,             \* position of the script: "scan", "wheels", "sdists", "done"
    packages,       \* defaultdict(list) of wheels, in insertion order
    sdist_packages, \* defaultdict(list) of source distributions, in insertion order
    index,          \* number of groups of the current loop already entered
    pending,        \* part of sorted_files[keep_versions:] not yet unlinked
    crashed,        \* the process died on an uncaught exception
    run,            \* how many times the script has been started
    dir0,           \* history: dir when the current run started
    dirStart,       \* history: dir when the first run started
    unlink_error,   \* history: the OS refused an unlink() in the current run
    \* ---- stata-print-csv.py, extract_local_metadata ----
    content,        \* the lines of the file handed to extract_local_metadata
    readable,       \* FALSE when opening or reading the file raises OSError
    lines,          \* the part of lines (line 44) the loop has still to visit
    metadata,       \* the metadata dictionary
    mpc,            \* position in extract_local_metadata: "open", "loop", "return"
    \* ---- stata-print-csv.py, print_report ----
    os_name,        \* os.name of the host
    root_exists,    \* shared_root.exists()
    manifest,       \* condition and content of integrity-baseline.json
    tree,           \* the files under shared_root
    unreadable,     \* the files of the tree whose open() raises OSError
    rpc,            \* position in print_report
    manifest_read,  \* history: load_hash_index has been called
    hash_root,      \* first result of load_hash_index
    hashes,         \* second result of load_hash_index
    walk,           \* the paths scan_ado_files has still to yield
    output          \* the rows printed so far

pruner_vars == <<dir, pc, packages, sdist_packages, index, pending, crashed,
                 run, dir0, dirStart, unlink_error>>

meta_vars == <<content, readable, lines, metadata, mpc>>

report_vars == <<os_name, root_exists, manifest, tree, unreadable, rpc,
                 manifest_read, hash_root, hashes, walk, output>>

vars == <<pruner_vars, meta_vars, report_vars>>

(***************************************************************************)
(* Characters and strings                                                  *)
(***************************************************************************)

\* The characters used by the model, in code point order.
Chars ==
    <<"\t", "\n", " ", "!", "*", "-", ".", "/",
      "0", "1", "2", "3", "4", "5", "6", "7", "8", "9", ":",
      "A", "B", "C", "D", "E", "F", "G", "H", "I", "J", "K", "L", "M",
      "N", "O", "P", "Q", "R", "S", "T", "U", "V", "W", "X", "Y", "Z",
      "\\", "_",
      "a", "b", "c", "d", "e", "f", "g", "h", "i", "j", "k", "l", "m",
      "n", "o", "p", "q", "r", "s", "t", "u", "v", "w", "x", "y", "z">>

ord(c) == CHOOSE i \in 1..Len(Chars) : Chars[i] = c

UpperCase ==
    <<"A", "B", "C", "D", "E", "F", "G", "H", "I", "J", "K", "L", "M",
      "N", "O", "P", "Q", "R", "S", "T", "U", "V", "W", "X", "Y", "Z">>

LowerCase ==
    <<"a", "b", "c", "d", "e", "f", "g", "h", "i", "j", "k", "l", "m",
      "n", "o", "p", "q", "r", "s", "t", "u", "v", "w", "x", "y", "z">>

lower_char(c) ==
    IF \E i \in 1..Len(UpperCase) : UpperCase[i] = c
    THEN LowerCase[CHOOSE i \in 1..Len(UpperCase) : UpperCase[i] = c]
    ELSE c

\* str.lower()
lower(s) == [i \in 1..Len(s) |-> lower_char(s[i])]

IsDigit(c) == c \in {"0", "1", "2", "3", "4", "5", "6", "7", "8", "9"}

\* s[k], or "" when k is outside the string
At(s, k) == IF k \in 1..Len(s) THEN s[k] ELSE ""

\* The characters of s at the 1-based positions a..b that exist (a Python slice)
Slice(s, a, b) == SubSeq(s, a, IF b < Len(s) THEN b ELSE Len(s))

\* s[k..] (1-based)
From(s, k) == Slice(s, k, Len(s))

startswith(s, prefix) ==
    Len(s) >= Len(prefix) /\ Slice(s, 1, Len(prefix)) = prefix

endswith(s, suffix) ==
    Len(s) >= Len(suffix) /\ From(s, Len(s) - Len(suffix) + 1) = suffix

\* a < b for Python strings: code point by code point, a proper prefix first
RECURSIVE StrLess(_, _)
StrLess(a, b) ==
    IF b = <<>> THEN FALSE
    ELSE IF a = <<>> THEN TRUE
    ELSE IF Head(a) = Head(b) THEN StrLess(Tail(a), Tail(b))
    ELSE ord(Head(a)) < ord(Head(b))

(***************************************************************************)
(* pip-cleanup-versions.py: the filename patterns                          *)
(***************************************************************************)

keep_versions == 3

\* Last index of the greedy \d+ that starts at p (p - 1 when no digit is there).
DigitRunEnd(s, p) ==
    IF p > Len(s) THEN p - 1
    ELSE CHOOSE q \in (p - 1)..Len(s) :
            /\ \A k \in p..q : IsDigit(s[k])
            /\ ~IsDigit(At(s, q + 1))

\* Last index of \d+\.\d+\.\d+ matched greedily from p, 0 when it does not
\* match. Each of the first two runs is followed by a literal dot, so only
\* the longest run can be followed by it.
VersionHeadEnd(s, p) ==
    LET a == DigitRunEnd(s, p) IN
    IF a < p \/ At(s, a + 1) # "." THEN 0
    ELSE LET b == DigitRunEnd(s, a + 2) IN
         IF b < a + 2 \/ At(s, b + 1) # "." THEN 0
         ELSE LET c == DigitRunEnd(s, b + 2) IN
              IF c < b + 2 THEN 0 ELSE c

\* Last index of (cp\d+|py\d+|py2\.py3) matched at p and followed by "-",
\* 0 when no alternative matches there.
TagEnd(s, p) ==
    LET d == DigitRunEnd(s, p + 2) IN
    IF /\ Slice(s, p, p + 1) \in {<<"c", "p">>, <<"p", "y">>}
       /\ d >= p + 2
       /\ At(s, d + 1) = "-"
    THEN d
    ELSE IF /\ Slice(s, p, p + 6) = <<"p", "y", "2", ".", "p", "y", "3">>
            /\ At(s, p + 7) = "-"
         THEN p + 6
         ELSE 0

\* .+\.whl$ from p
WheelTail(s, p) ==
    /\ Len(s) - p + 1 >= 5
    /\ endswith(s, <<".", "w", "h", "l">>)

SdistExtensions ==
    { <<"t", "a", "r", ".", "g", "z">>,
      <<"t", "a", "r", ".", "b", "z", "2">>,
      <<"z", "i", "p">> }

NoMatch == [matched |-> FALSE, name |-> <<>>, version |-> <<>>, tag |-> <<>>]

\* The least pair of a non-empty set of pairs, first component first: the
\* lazy (.+?) of group 1 is tried shortest first, then the lazy .*? that
\* ends group 2.
FirstPair(S) ==
    CHOOSE x \in S : \A y \in S :
        x[1] < y[1] \/ (x[1] = y[1] /\ x[2] <= y[2])

\* wheel_pattern.match(s):
\*   ^(.+?)-(\d+\.\d+\.\d+.*?)-(cp\d+|py\d+|py2\.py3)-.+\.whl$
\* i is the last index of group 1, e the index of the "-" that follows group 2.
wheel_pattern(s) ==
    LET cands == { x \in (1..Len(s)) \X (1..Len(s)) :
                     /\ At(s, x[1] + 1) = "-"
                     /\ VersionHeadEnd(s, x[1] + 2) # 0
                     /\ x[2] > VersionHeadEnd(s, x[1] + 2)
                     /\ s[x[2]] = "-"
                     /\ TagEnd(s, x[2] + 1) # 0
                     /\ WheelTail(s, TagEnd(s, x[2] + 1) + 2) }
    IN IF cands = {} THEN NoMatch
       ELSE LET x == FirstPair(cands) IN
            [matched |-> TRUE,
             name    |-> SubSeq(s, 1, x[1]),
             version |-> SubSeq(s, x[1] + 2, x[2] - 1),
             tag     |-> SubSeq(s, x[2] + 1, TagEnd(s, x[2] + 1))]

\* sdist_pattern.match(s):
\*   ^(.+?)-(\d+\.\d+\.\d+.*?)\.(tar\.gz|tar\.bz2|zip)$
\* i is the last index of group 1, e the last index of group 2.
sdist_pattern(s) ==
    LET cands == { x \in (1..Len(s)) \X (1..Len(s)) :
                     /\ At(s, x[1] + 1) = "-"
                     /\ VersionHeadEnd(s, x[1] + 2) # 0
                     /\ x[2] >= VersionHeadEnd(s, x[1] + 2)
                     /\ At(s, x[2] + 1) = "."
                     /\ From(s, x[2] + 2) \in SdistExtensions }
    IN IF cands = {} THEN NoMatch
       ELSE LET x == FirstPair(cands) IN
            [matched |-> TRUE,
             name    |-> SubSeq(s, 1, x[1]),
             version |-> SubSeq(s, x[1] + 2, x[2]),
             tag     |-> <<>>]

(***************************************************************************)
(* stata-print-csv.py: extract_local_metadata                              *)
(***************************************************************************)

SUMMARY_LINE_LIMIT == 30

\* Python's None; no string of characters equals it.
None == <<"None">>

\* bool(x) of a value that is None or a string
Truthy(x) == x # None /\ x # <<>>

IsSpace(c) == c \in {" ", "\t", "\n"}

\* str.lstrip() with a set of characters
RECURSIVE lstrip_chars(_, _)
lstrip_chars(s, set) ==
    IF s # <<>> /\ Head(s) \in set THEN lstrip_chars(Tail(s), set) ELSE s

RECURSIVE rstrip_chars(_, _)
rstrip_chars(s, set) ==
    IF s # <<>> /\ s[Len(s)] \in set
    THEN rstrip_chars(SubSeq(s, 1, Len(s) - 1), set)
    ELSE s

WhiteSpace == {" ", "\t", "\n"}

\* str.strip()
strip(s) == rstrip_chars(lstrip_chars(s, WhiteSpace), WhiteSpace)

\* sub in s
contains(s, sub) ==
    \E k \in 1..(Len(s) - Len(sub) + 1) : SubSeq(s, k, k + Len(sub) - 1) = sub

\* str.split(): the maximal runs of characters that are not white space
RECURSIVE split_from(_, _, _)
split_from(s, word, parts) ==
    IF s = <<>>
    THEN IF word = <<>> THEN parts ELSE Append(parts, word)
    ELSE IF IsSpace(Head(s))
         THEN split_from(Tail(s), <<>>,
                         IF word = <<>> THEN parts ELSE Append(parts, word))
         ELSE split_from(Tail(s), Append(word, Head(s)), parts)

split(s) == split_from(s, <<>>, <<>>)

version_word == <<"v", "e", "r", "s", "i", "o", "n">>

\* Lines 57-60: the token behind the first "version" that has a token behind
\* it, or the version so far when there is none.
version_token(parts, version) ==
    LET hits == { idx \in 1..Len(parts) :
                    parts[idx] = version_word /\ idx + 1 <= Len(parts) }
    IN IF hits = {} THEN version
       ELSE parts[(CHOOSE idx \in hits : \A j \in hits : idx <= j) + 1]

\* Whether a line may give the version (line 55).
is_version_line(stripped) ==
    /\ contains(lower(stripped), version_word)
    /\ ~startswith(stripped, <<"*">>)

\* Lines 49-60: what one line does to the dictionary.
scan_line(meta, line) ==
    LET stripped == strip(line)
        described ==
            IF startswith(stripped, <<"*">>) /\ ~Truthy(meta.description)
            THEN [meta EXCEPT !.description =
                                  strip(lstrip_chars(stripped, {"*"}))]
            ELSE meta
    IN IF is_version_line(stripped)
       THEN [described EXCEPT !.version =
                                  version_token(split(lower(stripped)), @)]
       ELSE described

\* Line 62: the loop stops once both fields are set.
complete(meta) == Truthy(meta.version) /\ Truthy(meta.description)

NoMetadata == [version |-> None, description |-> None]

\* The loop of lines 48-63 over the lines still to visit.
RECURSIVE scan_lines(_, _)
scan_lines(meta, rest) ==
    IF rest = <<>> THEN meta
    ELSE LET next == scan_line(meta, Head(rest))
         IN IF complete(next) THEN next ELSE scan_lines(next, Tail(rest))

\* extract_local_metadata as a function of the file
extract_local_metadata(text, can_read) ==
    IF ~can_read THEN NoMetadata
    ELSE scan_lines(NoMetadata, Slice(text, 1, SUMMARY_LINE_LIMIT))

\* "* Summary: computes widgets\n"
summary_line ==
    <<"*"," ","S","u","m","m","a","r","y",":"," ","c","o","m","p","u","t","e","s"," ","w","i","d","g","e","t","s","\n">>

\* "*! version 2.1\n"
star_bang_version_line ==
    <<"*","!"," ","v","e","r","s","i","o","n"," ","2",".","1","\n">>

\* "program define widget\n"
program_line ==
    <<"p","r","o","g","r","a","m"," ","d","e","f","i","n","e"," ","w","i","d","g","e","t","\n">>

\* "    version 14\n"
version_command_line ==
    <<" "," "," "," ","v","e","r","s","i","o","n"," ","1","4","\n">>

\* "*\n"
bare_star_line == <<"*","\n">>

HeaderLines ==
    { summary_line, star_bang_version_line, program_line,
      version_command_line, bare_star_line }

\* Most lines of a drawn file.
MaxLines == 3

\* A file longer than the line limit: SUMMARY_LINE_LIMIT comment lines, then
\* a version command.
LongFile ==
    [i \in 1..(SUMMARY_LINE_LIMIT + 1) |->
        IF i <= SUMMARY_LINE_LIMIT THEN bare_star_line
        ELSE version_command_line]

FileTexts ==
    UNION { [1..n -> HeaderLines] : n \in 0..MaxLines } \cup {LongFile}

MetaIdle ==
    /\ content = <<>>
    /\ readable = TRUE
    /\ lines = <<>>
    /\ metadata = NoMetadata
    /\ mpc = "idle"

MetaInit ==
    /\ content \in FileTexts
    /\ readable \in BOOLEAN
    /\ lines = <<>>
    /\ metadata = NoMetadata
    /\ mpc = "open"

\* Lines 42-46: the file is read, or OSError returns the empty dictionary.
Open ==
    /\ mpc = "open"
    /\ \/ /\ readable
          /\ lines' = Slice(content, 1, SUMMARY_LINE_LIMIT)
          /\ mpc' = "loop"
       \/ /\ ~readable
          /\ lines' = <<>>
          /\ mpc' = "return"
    /\ UNCHANGED <<content, readable, metadata>>
    /\ UNCHANGED <<pruner_vars, report_vars>>

\* Lines 48-63: one turn of the loop.
LoopLine ==
    /\ mpc = "loop"
    /\ lines # <<>>
    /\ metadata' = scan_line(metadata, Head(lines))
    /\ \/ /\ complete(metadata')
          /\ mpc' = "return"
          /\ UNCHANGED lines
       \/ /\ ~complete(metadata')
          /\ lines' = Tail(lines)
          /\ UNCHANGED mpc
    /\ UNCHANGED <<content, readable>>
    /\ UNCHANGED <<pruner_vars, report_vars>>

\* Line 65: the lines are used up.
LoopEnd ==
    /\ mpc = "loop"
    /\ lines = <<>>
    /\ mpc' = "return"
    /\ UNCHANGED <<content, readable, lines, metadata>>
    /\ UNCHANGED <<pruner_vars, report_vars>>


(***************************************************************************)
(* pip-cleanup-versions.py: the directory, the scan and the two loops      *)
(***************************************************************************)

\* File names a mirror directory may hold.
MirrorNames ==
    { \* foo-0.9.0-cp311-x.whl
      <<"f","o","o","-","0",".","9",".","0","-","c","p","3","1","1","-","x",".","w","h","l">>,
      \* foo-1.0.0-cp311-x.whl
      <<"f","o","o","-","1",".","0",".","0","-","c","p","3","1","1","-","x",".","w","h","l">>,
      \* foo-1.1.0-cp311-x.whl
      <<"f","o","o","-","1",".","1",".","0","-","c","p","3","1","1","-","x",".","w","h","l">>,
      \* foo-1.2.0-cp311-x.whl
      <<"f","o","o","-","1",".","2",".","0","-","c","p","3","1","1","-","x",".","w","h","l">>,
      \* foo-1.0.0-cp311-y.whl (same group and version as foo-1.0.0-cp311-x.whl)
      <<"f","o","o","-","1",".","0",".","0","-","c","p","3","1","1","-","y",".","w","h","l">>,
      \* Foo-1.3.0-cp311-x.whl (the name differs from foo in case only)
      <<"F","o","o","-","1",".","3",".","0","-","c","p","3","1","1","-","x",".","w","h","l">>,
      \* foo-1.0.0-py3-x.whl (another interpreter tag)
      <<"f","o","o","-","1",".","0",".","0","-","p","y","3","-","x",".","w","h","l">>,
      \* foo-1.0-py3-x.whl (a two-part version: not the wheel shape)
      <<"f","o","o","-","1",".","0","-","p","y","3","-","x",".","w","h","l">>,
      \* a_b-0.9.0.tar.gz
      <<"a","_","b","-","0",".","9",".","0",".","t","a","r",".","g","z">>,
      \* a_b-1.0.0.tar.gz
      <<"a","_","b","-","1",".","0",".","0",".","t","a","r",".","g","z">>,
      \* a_b-1.0.0.zip (same group and version as a_b-1.0.0.tar.gz)
      <<"a","_","b","-","1",".","0",".","0",".","z","i","p">>,
      \* a_b-1.1.0.zip
      <<"a","_","b","-","1",".","1",".","0",".","z","i","p">>,
      \* a-b-1.0.0.zip (the name differs from a_b in the separator only)
      <<"a","-","b","-","1",".","0",".","0",".","z","i","p">>,
      \* README.txt
      <<"R","E","A","D","M","E",".","t","x","t">> }

\* Largest directory of an initial state.
MaxFiles == 5

\* How many times the script is started, one run after the other.
MaxRuns == 2

\* The pattern results of every name.
WheelMatch == [f \in MirrorNames |-> wheel_pattern(f)]

SdistMatch == [f \in MirrorNames |-> sdist_pattern(f)]

\* All orders in which a directory listing may return the files of S.
RECURSIVE Listings(_)
Listings(S) ==
    IF S = {} THEN {<<>>}
    ELSE UNION { { <<f>> \o rest : rest \in Listings(S \ {f}) } : f \in S }

\* packages_dir.glob('*' + suffix): the names of the directory that end in
\* the suffix; pathlib matches names without regard to case on Windows.
glob(d, suffix) == { f \in d : endswith(lower(f), suffix) }

\* The test of the match object left out.
accepted_always(m) == TRUE

\* The match object is tested before it is used (lines 23 and 37).
accepted(m) == m.matched

\* A key that folds case and separators.
WheelKeyFolded(m) ==
    <<[k \in 1..Len(m.name) |->
          IF m.name[k] = "-" THEN "_" ELSE lower_char(m.name[k])], m.tag>>

\* The dictionary key of a matched wheel.
WheelKey(m) == <<m.name, m.tag>>

\* The dictionary key of a matched source distribution.
SdistKey(m) == m.name

\* groups[key].append(item) on a defaultdict(list) kept in insertion order
DictAppend(groups, key, item) ==
    IF \E g \in 1..Len(groups) : groups[g].key = key
    THEN LET g == CHOOSE g \in 1..Len(groups) : groups[g].key = key
         IN [groups EXCEPT ![g].files = Append(@, item)]
    ELSE Append(groups, [key |-> key, files |-> <<item>>])

\* for file in ...glob('*.whl'): if match: packages[key].append(...)
RECURSIVE group_wheels(_, _)
group_wheels(listing, groups) ==
    IF listing = <<>> THEN groups
    ELSE LET file == Head(listing)
             match == WheelMatch[file]
         IN group_wheels(Tail(listing),
                IF accepted(match)
                THEN DictAppend(groups, WheelKey(match),
                                [version |-> match.version, file |-> file])
                ELSE groups)

\* for file in ...glob(pattern): if match: sdist_packages[pkg_name].append(...)
RECURSIVE group_sdists(_, _)
group_sdists(listing, groups) ==
    IF listing = <<>> THEN groups
    ELSE LET file == Head(listing)
             match == SdistMatch[file]
         IN group_sdists(Tail(listing),
                IF accepted(match)
                THEN DictAppend(groups, SdistKey(match),
                                [version |-> match.version, file |-> file])
                ELSE groups)

\* One step of a stable descending sort: x goes behind every element whose
\* version is not smaller than its own.
InsertDescending(sorted, x) ==
    LET k == Cardinality({ j \in 1..Len(sorted) :
                             ~StrLess(sorted[j].version, x.version) })
    IN SubSeq(sorted, 1, k) \o <<x>> \o SubSeq(sorted, k + 1, Len(sorted))

\* sorted(files, key=lambda x: x[0], reverse=True)
RECURSIVE SortFrom(_, _)
SortFrom(files, sorted) ==
    IF files = <<>> THEN sorted
    ELSE SortFrom(Tail(files), InsertDescending(sorted, Head(files)))

\* The sort without reverse=True.
sorted_ascending(files) ==
    IF files = <<>> THEN <<>>
    ELSE LET sorted == SortFrom(files, <<>>)
         IN [k \in 1..Len(sorted) |-> sorted[Len(sorted) + 1 - k]]

sorted_files(files) == SortFrom(files, <<>>)

\* Only the first file beyond the kept ones.
to_delete_one(files) ==
    Slice(sorted_files(files), keep_versions + 1, keep_versions + 1)

\* sorted_files[keep_versions:]
to_delete(files) == From(sorted_files(files), keep_versions + 1)

Files(seq) == { seq[i].file : i \in 1..Len(seq) }

PrunerInit ==
    /\ dir \in { S \in SUBSET MirrorNames : Cardinality(S) <= MaxFiles }
    /\ pc = "scan"
    /\ packages = <<>>
    /\ sdist_packages = <<>>
    /\ index = 0
    /\ pending = <<>>
    /\ crashed = FALSE
    /\ run = 1
    /\ dir0 = dir
    /\ dirStart = dir
    /\ unlink_error = FALSE

\* Lines 19-40: both dictionaries are filled from the directory listings.
Scan ==
    /\ pc = "scan" /\ ~crashed
    /\ \E whl \in Listings(glob(dir, <<".", "w", "h", "l">>)),
          tgz \in Listings(glob(dir, <<".", "t", "a", "r", ".", "g", "z">>)),
          tbz \in Listings(glob(dir, <<".", "t", "a", "r", ".", "b", "z", "2">>)),
          zip \in Listings(glob(dir, <<".", "z", "i", "p">>)) :
            /\ packages' = group_wheels(whl, <<>>)
            /\ sdist_packages' = group_sdists(tgz \o tbz \o zip, <<>>)
    /\ pc' = "wheels"
    /\ index' = 0
    /\ pending' = <<>>
    /\ UNCHANGED <<dir, crashed, run, dir0, dirStart, unlink_error>>
    /\ UNCHANGED <<meta_vars, report_vars>>

\* Lines 44-51: the wheel loop enters its next group.
NextWheelGroup ==
    /\ pc = "wheels" /\ ~crashed
    /\ pending = <<>>
    /\ index < Len(packages)
    /\ index' = index + 1
    /\ pending' = to_delete(packages[index + 1].files)
    /\ UNCHANGED <<dir, pc, packages, sdist_packages, crashed, run, dir0,
                   dirStart, unlink_error>>
    /\ UNCHANGED <<meta_vars, report_vars>>

\* Line 55: the wheel loop is over.
WheelsComplete ==
    /\ pc = "wheels" /\ ~crashed
    /\ pending = <<>>
    /\ index = Len(packages)
    /\ pc' = "sdists"
    /\ index' = 0
    /\ UNCHANGED <<dir, packages, sdist_packages, pending, crashed, run, dir0,
                   dirStart, unlink_error>>
    /\ UNCHANGED <<meta_vars, report_vars>>

\* Lines 59-66: the sdist loop enters its next group.
NextSdistGroup ==
    /\ pc = "sdists" /\ ~crashed
    /\ pending = <<>>
    /\ index < Len(sdist_packages)
    /\ index' = index + 1
    /\ pending' = to_delete(sdist_packages[index + 1].files)
    /\ UNCHANGED <<dir, pc, packages, sdist_packages, crashed, run, dir0,
                   dirStart, unlink_error>>
    /\ UNCHANGED <<meta_vars, report_vars>>

\* The unlink inside a try that swallows the error and goes on.
UnlinkAndContinue ==
    /\ pc \in {"wheels", "sdists"} /\ ~crashed
    /\ pending # <<>>
    /\ \/ /\ Head(pending).file \in dir
          /\ dir' = dir \ {Head(pending).file}
          /\ UNCHANGED unlink_error
       \/ /\ unlink_error' = TRUE
          /\ UNCHANGED dir
    /\ pending' = Tail(pending)
    /\ UNCHANGED <<pc, packages, sdist_packages, index, run, dir0, dirStart,
                   crashed>>
    /\ UNCHANGED <<meta_vars, report_vars>>

\* Lines 53 and 68: file_path.unlink(). The file goes, or the operating
\* system refuses (permission, file in use) and the exception, which nothing
\* catches, ends the process.
Unlink ==
    /\ pc \in {"wheels", "sdists"} /\ ~crashed
    /\ pending # <<>>
    /\ \/ /\ Head(pending).file \in dir
          /\ dir' = dir \ {Head(pending).file}
          /\ pending' = Tail(pending)
          /\ UNCHANGED <<crashed, unlink_error>>
       \/ /\ crashed' = TRUE
          /\ unlink_error' = TRUE
          /\ UNCHANGED <<dir, pending>>
    /\ UNCHANGED <<pc, packages, sdist_packages, index, run, dir0, dirStart>>
    /\ UNCHANGED <<meta_vars, report_vars>>

\* Line 70: the sdist loop is over and the process exits; its dictionaries
\* are gone with it.
SdistsComplete ==
    /\ pc = "sdists" /\ ~crashed
    /\ pending = <<>>
    /\ index = Len(sdist_packages)
    /\ pc' = "done"
    /\ packages' = <<>>
    /\ sdist_packages' = <<>>
    /\ index' = 0
    /\ UNCHANGED <<dir, pending, crashed, run, dir0, dirStart, unlink_error>>
    /\ UNCHANGED <<meta_vars, report_vars>>

\* The script is started again on the directory the last run left.
Rerun ==
    /\ pc = "done" /\ ~crashed
    /\ run < MaxRuns
    /\ run' = run + 1
    /\ pc' = "scan"
    /\ dir0' = dir
    /\ UNCHANGED <<dir, packages, sdist_packages, index, pending, crashed,
                   dirStart, unlink_error>>
    /\ UNCHANGED <<meta_vars, report_vars>>

PrunerNext ==
    \/ Scan
    \/ NextWheelGroup
    \/ Unlink
    \/ WheelsComplete
    \/ NextSdistGroup
    \/ SdistsComplete
    \/ Rerun

PrunerIdle ==
    /\ dir = {}
    /\ pc = "idle"
    /\ packages = <<>>
    /\ sdist_packages = <<>>
    /\ index = 0
    /\ pending = <<>>
    /\ crashed = FALSE
    /\ run = 0
    /\ dir0 = {}
    /\ dirStart = {}
    /\ unlink_error = FALSE

ReportIdle ==
    /\ os_name = "nt"
    /\ root_exists = FALSE
    /\ manifest = <<>>
    /\ tree = {}
    /\ unreadable = {}
    /\ rpc = "idle"
    /\ manifest_read = FALSE
    /\ hash_root = <<>>
    /\ hashes = <<>>
    /\ walk = <<>>
    /\ output = <<>>

PrunerSpecInit == PrunerInit /\ MetaIdle /\ ReportIdle

SpecPruner == PrunerSpecInit /\ [][PrunerNext]_vars

(***************************************************************************)
(* stata-print-csv.py: paths                                               *)
(***************************************************************************)

\* A Windows path is a drive and the components behind it.
\* C:/Program Files/Stata18/shared_ado
DEFAULT_SHARED_ADO ==
    [drive |-> <<"C", ":">>,
     parts |-> << <<"P","r","o","g","r","a","m"," ","F","i","l","e","s">>,
                  <<"S","t","a","t","a","1","8">>,
                  <<"s","h","a","r","e","d","_","a","d","o">> >>]

\* The components of a path string: the runs between "/" and "\".
RECURSIVE components_from(_, _, _)
components_from(s, word, parts) ==
    IF s = <<>>
    THEN IF word = <<>> THEN parts ELSE Append(parts, word)
    ELSE IF Head(s) \in {"/", "\\"}
         THEN components_from(Tail(s), <<>>,
                              IF word = <<>> THEN parts ELSE Append(parts, word))
         ELSE components_from(Tail(s), Append(word, Head(s)), parts)

\* Path(s) of an absolute path string with a drive letter
Path(s) ==
    LET comps == components_from(s, <<>>, <<>>)
    IN [drive |-> Head(comps), parts |-> Tail(comps)]

\* "\".join(parts)
RECURSIVE join(_)
join(parts) ==
    IF parts = <<>> THEN <<>>
    ELSE IF Len(parts) = 1 THEN Head(parts)
    ELSE Head(parts) \o <<"\\">> \o join(Tail(parts))

\* How many leading components of two paths agree under normcase.
RECURSIVE common_prefix(_, _)
common_prefix(a, b) ==
    IF a = <<>> \/ b = <<>> \/ lower(Head(a)) # lower(Head(b)) THEN 0
    ELSE 1 + common_prefix(Tail(a), Tail(b))

ValueError == <<"ValueError">>

\* os.path.relpath(path, start) of ntpath, on absolute paths
relpath(path, start) ==
    IF lower(path.drive) # lower(start.drive) THEN ValueError
    ELSE LET i == common_prefix(start.parts, path.parts)
             rel_list == [k \in 1..(Len(start.parts) - i) |-> <<".", ".">>]
                         \o SubSeq(path.parts, i + 1, Len(path.parts))
         IN IF rel_list = <<>> THEN <<".">> ELSE join(rel_list)

\* The absolute path of a file of the tree, given by its components below
\* shared_root.
ado_path_of(file) ==
    [drive |-> DEFAULT_SHARED_ADO.drive,
     parts |-> DEFAULT_SHARED_ADO.parts \o file]

\* Lines 156-159: the lookup key before it is lower-cased.
relative_of(file, root) ==
    LET rel == relpath(ado_path_of(file), root)
    IN IF rel = ValueError THEN file[Len(file)] ELSE rel

\* PurePath.stem
stem(name) ==
    LET dots == { k \in 1..Len(name) : name[k] = "." }
        i == IF dots = {} THEN 0 ELSE CHOOSE k \in dots : \A j \in dots : j <= k
    IN IF 1 < i /\ i < Len(name) THEN SubSeq(name, 1, i - 1) ELSE name

\* sanitize of format_row: tabs become blanks
sanitize(s) == [k \in 1..Len(s) |-> IF s[k] = "\t" THEN " " ELSE s[k]]

(***************************************************************************)
(* stata-print-csv.py: the manifest and load_hash_index                    *)
(***************************************************************************)

\* JSON values. A number carries its digits, a string its characters.
JNull == [t |-> "null"]

JNumber(digits) == [t |-> "number", s |-> digits]

JString(s) == [t |-> "string", s |-> s]

JArray(items) == [t |-> "array", items |-> items]

JObject(fields) == [t |-> "object", fields |-> fields]

\* bool(v) of a value json.loads returns
json_truthy(v) ==
    CASE v.t = "null" -> FALSE
      [] v.t = "number" -> v.s # <<"0">>
      [] v.t = "string" -> v.s # <<>>
      [] v.t = "array" -> v.items # <<>>
      [] v.t = "object" -> DOMAIN v.fields # {}

\* dict.get(key, default)
dict_get(obj, key, default) ==
    IF key \in DOMAIN obj.fields THEN obj.fields[key] ELSE default

\* The two ways load_hash_index ends.
Returned(root, hash_index) ==
    [raised |-> "", root |-> root, index |-> hash_index]

Raised(exception) ==
    [raised |-> exception, root |-> <<>>, index |-> <<>>]

\* Lines 127-133: the loop over the entries; hash_index is the dictionary
\* so far. A hash is kept as the characters str() gives for it (the drawn
\* manifests hold strings and numbers there).
RECURSIVE index_entries(_, _)
index_entries(entries, hash_index) ==
    IF entries = <<>> THEN [raised |-> "", index |-> hash_index]
    ELSE LET entry == Head(entries) IN
         IF entry.t # "object"
         THEN [raised |-> "AttributeError", index |-> hash_index]
         ELSE LET relative == dict_get(entry, "RelativePath", JNull)
                  hash_value == dict_get(entry, "Hash", JNull)
              IN IF ~json_truthy(relative) \/ ~json_truthy(hash_value)
                 THEN index_entries(Tail(entries), hash_index)
                 ELSE IF relative.t # "string"
                      THEN [raised |-> "AttributeError", index |-> hash_index]
                      ELSE index_entries(Tail(entries),
                               (lower(relative.s) :> hash_value.s) @@ hash_index)

\* mirror.get("Files") or []
files_of(mirror) ==
    LET given == dict_get(mirror, "Files", JNull)
    IN IF json_truthy(given) THEN given ELSE JArray(<<>>)

\* load_hash_index(shared_root), lines 111-135
load_hash_index(mf) ==
    IF mf.file = "absent" THEN Returned(DEFAULT_SHARED_ADO, <<>>)
    ELSE IF mf.file \in {"unreadable", "invalid_json"}
    THEN Returned(DEFAULT_SHARED_ADO, <<>>)
    ELSE IF mf.file = "undecodable" THEN Raised("UnicodeDecodeError")
    ELSE IF mf.json.t # "object" THEN Raised("AttributeError")
    ELSE LET given == dict_get(mf.json, "Mirror", JNull)
             mirror == IF json_truthy(given) THEN given ELSE JObject(<<>>)
         IN IF mirror.t # "object" THEN Raised("AttributeError")
            ELSE IF /\ "RootPath" \in DOMAIN mirror.fields
                    /\ mirror.fields["RootPath"].t # "string"
            THEN Raised("TypeError")
            ELSE LET root == IF "RootPath" \in DOMAIN mirror.fields
                             THEN Path(mirror.fields["RootPath"].s)
                             ELSE DEFAULT_SHARED_ADO
                     files == files_of(mirror)
                 IN \* a number cannot be iterated; a non-empty string or
                    \* object yields strings, which have no .get
                    IF files.t = "number" THEN Raised("TypeError")
                    ELSE IF files.t # "array" THEN Raised("AttributeError")
                    ELSE LET loop == index_entries(files.items, <<>>)
                         IN IF loop.raised # "" THEN Raised(loop.raised)
                            ELSE Returned(root, loop.index)

(***************************************************************************)
(* stata-print-csv.py: the tree, the walk and print_report                 *)
(***************************************************************************)

\* widget.ado
widget_ado == <<<<"w","i","d","g","e","t",".","a","d","o">>>>

\* w\Widget.ADO
w_Widget_ADO == <<<<"w">>, <<"W","i","d","g","e","t",".","A","D","O">>>>

\* plus\w\gadget.ado
plus_w_gadget_ado == <<<<"p","l","u","s">>, <<"w">>, <<"g","a","d","g","e","t",".","a","d","o">>>>

\* notes.txt
notes_txt == <<<<"n","o","t","e","s",".","t","x","t">>>>

\* w\old.ado.bak
w_old_ado_bak == <<<<"w">>, <<"o","l","d",".","a","d","o",".","b","a","k">>>>

\* Files the tree under shared_root may hold, each by its components.
TreeFiles ==
    {widget_ado, w_Widget_ADO, plus_w_gadget_ado, notes_txt, w_old_ado_bak}

\* What each file of the tree holds.
FileText(file) ==
    CASE file = widget_ado ->
           <<summary_line, star_bang_version_line, program_line>>
      [] file = w_Widget_ADO -> <<version_command_line, summary_line>>
      [] file = plus_w_gadget_ado -> <<bare_star_line>>
      [] OTHER -> <<>>

\* Most files of a tree that cannot be opened.
MaxUnreadable == 1

ManifestFile(condition) == [file |-> condition, json |-> JNull]

ManifestJson(value) == [file |-> "json", json |-> value]

Entry(relative, hash_value) ==
    JObject([RelativePath |-> JString(relative), Hash |-> JString(hash_value)])

h1 == <<"h", "1">>

h2 == <<"h", "2">>

h3 == <<"h", "3">>

\* The conditions and contents of integrity-baseline.json.
Manifests ==
    << ManifestFile("absent"),
       \* read_text raises OSError
       ManifestFile("unreadable"),
       \* the bytes are not UTF-8
       ManifestFile("undecodable"),
       \* json.loads raises JSONDecodeError
       ManifestFile("invalid_json"),
       \* []
       ManifestJson(JArray(<<>>)),
       \* {}
       ManifestJson(JObject(<<>>)),
       \* {"Mirror": "x"}
       ManifestJson(JObject([Mirror |-> JString(<<"x">>)])),
       \* {"Mirror": {"Files": 5}}
       ManifestJson(JObject([Mirror |-> JObject([Files |-> JNumber(<<"5">>)])])),
       \* {"Mirror": {"Files": ["x"]}}
       ManifestJson(JObject([Mirror |->
           JObject([Files |-> JArray(<<JString(<<"x">>)>>)])])),
       \* {"Mirror": {"RootPath": 5}}
       ManifestJson(JObject([Mirror |-> JObject([RootPath |-> JNumber(<<"5">>)])])),
       \* {"Mirror": {"RootPath": "C:\\Program Files\\Stata18\\shared_ado",
       \*   "Files": [{"RelativePath": "widget.ado", "Hash": "h1"},
       \*             {"RelativePath": "W\\<<"w","i","d","g","e","t",".","a","d","o">>.ado", "Hash": "h2"},
       \*             {"RelativePath": "plus\\w\\gadget.ado"}]}}
       ManifestJson(JObject([Mirror |-> JObject([
           RootPath |-> JString(<<"C",":","\\","P","r","o","g","r","a","m"," ","F","i","l","e","s","\\","S","t","a","t","a","1","8","\\","s","h","a","r","e","d","_","a","d","o">>),
           Files |-> JArray(<<
               Entry(<<"w","i","d","g","e","t",".","a","d","o">>, h1),
               Entry(<<"W","\\","W","I","D","G","E","T",".","a","d","o">>, h2),
               JObject([RelativePath |-> JString(<<"p","l","u","s","\\","w","\\","g","a","d","g","e","t",".","a","d","o">>)]) >>)])])),
       \* {"Mirror": {"RootPath": "c:/program files/stata18/SHARED_ADO",
       \*   "Files": [{"RelativePath": "w/Widget.ADO", "Hash": "h2"},
       \*             {"RelativePath": "Plus/W/Gadget.ado", "Hash": "h3"}]}}
       ManifestJson(JObject([Mirror |-> JObject([
           RootPath |-> JString(<<"c",":","/","p","r","o","g","r","a","m"," ","f","i","l","e","s","/","s","t","a","t","a","1","8","/","S","H","A","R","E","D","_","A","D","O">>),
           Files |-> JArray(<<
               Entry(<<"w","/","W","i","d","g","e","t",".","A","D","O">>, h2),
               Entry(<<"P","l","u","s","/","W","/","G","a","d","g","e","t",".","a","d","o">>, h3) >>)])])),
       \* {"Mirror": {"RootPath": "D:\\mirror",
       \*   "Files": [{"RelativePath": "widget.ado", "Hash": "h1"}]}}
       ManifestJson(JObject([Mirror |-> JObject([
           RootPath |-> JString(<<"D",":","\\","m","i","r","r","o","r">>),
           Files |-> JArray(<< Entry(<<"w","i","d","g","e","t",".","a","d","o">>, h1) >>)])])),
       \* {"Mirror": {"RootPath": "C:\\Program Files\\Stata18",
       \*   "Files": [{"RelativePath": "shared_ado\\widget.ado", "Hash": "h1"}]}}
       ManifestJson(JObject([Mirror |-> JObject([
           RootPath |-> JString(<<"C",":","\\","P","r","o","g","r","a","m"," ","F","i","l","e","s","\\","S","t","a","t","a","1","8">>),
           Files |-> JArray(<< Entry(<<"s","h","a","r","e","d","_","a","d","o","\\","w","i","d","g","e","t",".","a","d","o">>, h1) >>)])])) >>

\* The files directly in directory d of the tree tr.
files_in(tr, d) ==
    { f \in tr : Len(f) = Len(d) + 1 /\ SubSeq(f, 1, Len(d)) = d }

\* The directories directly in directory d of the tree tr.
dirs_in(tr, d) ==
    { SubSeq(f, 1, Len(d) + 1) :
        f \in { g \in tr : Len(g) > Len(d) + 1 /\ SubSeq(g, 1, Len(d)) = d } }

\* os.walk(base_path), top down: the files of a directory in the order its
\* listing gives, then its directories one after the other in that order.
\* The result is every order the walk may visit the files in.
RECURSIVE os_walk(_, _), walk_dirs(_, _)
os_walk(tr, d) ==
    { here \o below : here \in Listings(files_in(tr, d)),
                      below \in UNION { walk_dirs(tr, ds) :
                                          ds \in Listings(dirs_in(tr, d)) } }

walk_dirs(tr, ds) ==
    IF ds = <<>> THEN {<<>>}
    ELSE { first \o rest : first \in os_walk(tr, Head(ds)),
                           rest \in walk_dirs(tr, Tail(ds)) }

\* Line 33: filename.lower().endswith(".ado")
is_ado(filename) == endswith(lower(filename), <<".", "a", "d", "o">>)

\* scan_ado_files: the paths the generator yields from one walk order
RECURSIVE scan_ado_files(_)
scan_ado_files(visited) ==
    IF visited = <<>> THEN <<>>
    ELSE IF is_ado(Head(visited)[Len(Head(visited))])
         THEN <<Head(visited)>> \o scan_ado_files(Tail(visited))
         ELSE scan_ado_files(Tail(visited))

\* x or ""
or_empty(x) == IF Truthy(x) THEN x ELSE <<>>

\* hashes.get(relative.lower(), "")
hash_lookup(hash_index, relative) ==
    IF lower(relative) \in DOMAIN hash_index
    THEN hash_index[lower(relative)]
    ELSE <<>>

\* Lines 149-163: the row printed for one path. The field path is not
\* printed: it records which file the row is for.
report_row(file, can_read, root, hash_index) ==
    LET meta == extract_local_metadata(FileText(file), can_read)
    IN [package     |-> sanitize(stem(file[Len(file)])),
        version     |-> sanitize(or_empty(meta.version)),
        description |-> sanitize(or_empty(meta.description)),
        location    |-> SubSeq(ado_path_of(file).parts, 1,
                               Len(ado_path_of(file).parts) - 1),
        file_hash   |-> sanitize(hash_lookup(hash_index,
                                             relative_of(file, root))),
        path        |-> file]

\* A platform check that lets every host through.
ensure_windows_never == FALSE

\* Line 24
ensure_windows_raises == os_name # "nt"

\* Line 141
root_missing == ~root_exists

ReportInit ==
    /\ os_name \in {"nt", "posix"}
    /\ root_exists \in BOOLEAN
    /\ tree \in IF root_exists THEN SUBSET TreeFiles ELSE {{}}
    /\ unreadable \in { U \in SUBSET tree : Cardinality(U) <= MaxUnreadable }
    /\ manifest \in IF root_exists
                    THEN { Manifests[i] : i \in 1..Len(Manifests) }
                    ELSE { Manifests[1] }
    /\ rpc = "ensure_windows"
    /\ manifest_read = FALSE
    /\ hash_root = <<>>
    /\ hashes = <<>>
    /\ walk = <<>>
    /\ output = <<>>

\* Line 139: ensure_windows()
EnsureWindows ==
    /\ rpc = "ensure_windows"
    /\ rpc' = IF ensure_windows_raises THEN "SystemExit" ELSE "check_root"
    /\ UNCHANGED <<os_name, root_exists, manifest, tree, unreadable,
                   manifest_read, hash_root, hashes, walk, output>>
    /\ UNCHANGED <<pruner_vars, meta_vars>>

\* Lines 141-144
CheckRoot ==
    /\ rpc = "check_root"
    /\ rpc' = IF root_missing THEN "SystemExit" ELSE "load_hash_index"
    /\ UNCHANGED <<os_name, root_exists, manifest, tree, unreadable,
                   manifest_read, hash_root, hashes, walk, output>>
    /\ UNCHANGED <<pruner_vars, meta_vars>>

\* Lines 146-148: the manifest is loaded; an exception load_hash_index lets
\* through ends the process with a traceback. Otherwise the walk starts.
LoadHashIndex ==
    /\ rpc = "load_hash_index"
    /\ manifest_read' = TRUE
    /\ LET loaded == load_hash_index(manifest) IN
       \/ /\ loaded.raised # ""
          /\ rpc' = "traceback"
          /\ UNCHANGED <<hash_root, hashes, walk>>
       \/ /\ loaded.raised = ""
          /\ hash_root' = loaded.root
          /\ hashes' = loaded.index
          /\ \E visited \in os_walk(tree, <<>>) :
                walk' = scan_ado_files(visited)
          /\ rpc' = "walk"
    /\ UNCHANGED <<os_name, root_exists, manifest, tree, unreadable, output>>
    /\ UNCHANGED <<pruner_vars, meta_vars>>

\* Lines 148-163: one turn of the loop of print_report.
ReportFile ==
    /\ rpc = "walk"
    /\ walk # <<>>
    /\ output' = Append(output,
                        report_row(Head(walk), Head(walk) \notin unreadable,
                                   hash_root, hashes))
    /\ walk' = Tail(walk)
    /\ UNCHANGED <<os_name, root_exists, manifest, tree, unreadable, rpc,
                   manifest_read, hash_root, hashes>>
    /\ UNCHANGED <<pruner_vars, meta_vars>>

\* The generator is exhausted and print_report returns.
ReportDone ==
    /\ rpc = "walk"
    /\ walk = <<>>
    /\ rpc' = "done"
    /\ UNCHANGED <<os_name, root_exists, manifest, tree, unreadable,
                   manifest_read, hash_root, hashes, walk, output>>
    /\ UNCHANGED <<pruner_vars, meta_vars>>

ReportNext ==
    \/ EnsureWindows
    \/ CheckRoot
    \/ LoadHashIndex
    \/ ReportFile
    \/ ReportDone

ReportSpecInit == ReportInit /\ PrunerIdle /\ MetaIdle

SpecReport == ReportSpecInit /\ [][ReportNext]_vars

(***************************************************************************)
(* Properties of pip-cleanup-versions.py, checked under SpecPruner         *)
(***************************************************************************)

Matched(f) == WheelMatch[f].matched \/ SdistMatch[f].matched

VersionOf(f) ==
    IF WheelMatch[f].matched THEN WheelMatch[f].version
    ELSE SdistMatch[f].version

\* Two files are of one retention group: both wheels with the same captured
\* name and interpreter tag, or both source archives with the same captured
\* name.
SameIdentity(f, g) ==
    \/ /\ WheelMatch[f].matched /\ WheelMatch[g].matched
       /\ WheelMatch[f].name = WheelMatch[g].name
       /\ WheelMatch[f].tag = WheelMatch[g].tag
    \/ /\ SdistMatch[f].matched /\ SdistMatch[g].matched
       /\ SdistMatch[f].name = SdistMatch[g].name

\* The retention groups of a directory, each as the set of its files.
RetentionGroups(d) ==
    { { g \in d : SameIdentity(f, g) } : f \in { h \in d : Matched(h) } }

\* The lists of the two dictionaries, each as the set of its files.
Lists ==
    { Files(packages[i].files) : i \in 1..Len(packages) }
    \cup { Files(sdist_packages[i].files) : i \in 1..Len(sdist_packages) }

\* The files the dictionaries hold.
Grouped == UNION Lists

\* f and g are in one list of one of the dictionaries.
InOneList(f, g) == \E L \in Lists : f \in L /\ g \in L

\* C1: after a complete run, a group of N files has lost no file when
\* N <= keep_versions, and otherwise has lost exactly N - keep_versions
\* files, none of which has a version string greater than that of a file
\* that remains.
C1_RetentionPerGroup ==
    pc = "done" =>
        \A G \in RetentionGroups(dir0) :
            LET kept == G \cap dir
                gone == G \ dir
            IN /\ Cardinality(G) <= keep_versions => gone = {}
               /\ Cardinality(G) > keep_versions =>
                    /\ Cardinality(gone) = Cardinality(G) - keep_versions
                    /\ Cardinality(kept) = keep_versions
                    /\ \A k \in kept, d \in gone :
                          ~StrLess(VersionOf(k), VersionOf(d))

\* A first run has ended that pruned one group and left a smaller one alone.
C1_Witness ==
    /\ pc = "done" /\ run = 1
    /\ \E G \in RetentionGroups(dir0) :
          Cardinality(G) > keep_versions /\ ~(G \subseteq dir)
    /\ \E G \in RetentionGroups(dir0) :
          Cardinality(G) <= keep_versions /\ G \subseteq dir

\* C2: a run that follows a complete run deletes nothing: it attempts no
\* unlink and the directory stays as the earlier run left it.
C2_SecondRunDeletesNothing ==
    run >= 2 =>
        /\ dir = dir0
        /\ pending = <<>>
        /\ ~unlink_error

\* A second run has ended after a first run that deleted files.
C2_Witness ==
    run = 2 /\ pc = "done" /\ dir0 # dirStart

\* C3: a file whose name has neither shape is never in a dictionary, is
\* never due for deletion and stays in the directory.
C3_UnmatchedUntouched ==
    \A f \in dirStart :
        ~Matched(f) =>
            /\ f \in dir
            /\ f \notin Grouped
            /\ f \notin Files(pending)

\* A run has ended that deleted files beside a file the wheel glob lists but
\* neither pattern matches.
C3_Witness ==
    /\ pc = "done"
    /\ dir # dirStart
    /\ \E f \in dirStart : ~Matched(f) /\ endswith(f, <<".", "w", "h", "l">>)

\* Case and separator normalisation of a package name.
normalized(name) ==
    [k \in 1..Len(name) |->
        IF name[k] = "-" THEN "_" ELSE lower_char(name[k])]

\* Two archives of one kind (and one interpreter tag) whose names are equal
\* once normalised.
SameNormalizedIdentity(f, g) ==
    \/ /\ WheelMatch[f].matched /\ WheelMatch[g].matched
       /\ normalized(WheelMatch[f].name) = normalized(WheelMatch[g].name)
       /\ WheelMatch[f].tag = WheelMatch[g].tag
    \/ /\ SdistMatch[f].matched /\ SdistMatch[g].matched
       /\ normalized(SdistMatch[f].name) = normalized(SdistMatch[g].name)

\* The scan has just filled the dictionaries; no later step changes them
\* before the process ends.
Scanned == pc = "wheels" /\ index = 0

\* C4 as stated: once the directory is scanned, archives whose names differ
\* only in case or in "-" against "_" are in one group.
C4_NormalizedGrouping ==
    Scanned =>
        \A f, g \in dir0 : SameNormalizedIdentity(f, g) => InOneList(f, g)

\* C4 as amended: once the directory is scanned, two archives are in one
\* group exactly when they are of one kind, carry the same interpreter tag
\* (wheels) and have the same name as the pattern captured it, character
\* for character.
C4_ExactNameGrouping ==
    Scanned =>
        /\ \A f \in dir0 : Matched(f) => f \in Grouped
        /\ \A L \in Lists : \A f, g \in L : SameIdentity(f, g)
        /\ \A L1, L2 \in Lists :
              L1 # L2 => \A f \in L1, g \in L2 : ~SameIdentity(f, g)

\* The scan has put two archives, whose names differ in case only or in the
\* separator only, into two groups.
C4_Witness ==
    /\ Scanned
    /\ \E f, g \in dir0 :
          /\ SameNormalizedIdentity(f, g)
          /\ ~SameIdentity(f, g)
          /\ f \in Grouped /\ g \in Grouped
          /\ ~InOneList(f, g)

\* C10: an unlink the operating system refuses ends the process, and from
\* then on the directory never changes; no file ever comes back.
C10_FailStop ==
    /\ [](unlink_error => crashed)
    /\ [][unlink_error => dir' = dir]_vars
    /\ [][dir' \subseteq dir]_vars

\* The process died on an unlink after it had deleted a file, and the file
\* it failed on is still there.
C10_Witness ==
    /\ crashed /\ unlink_error
    /\ dir # dir0
    /\ pending # <<>> /\ Head(pending).file \in dir

(***************************************************************************)
(* Properties of stata-print-csv.py, checked under SpecReport and SpecMeta *)
(***************************************************************************)

\* The .ado files of the tree.
AdoFiles == { f \in tree : is_ado(f[Len(f)]) }

\* The rows printed for file f.
RowsOf(f) == { i \in 1..Len(output) : output[i].path = f }

\* One row for each .ado file, no row for another file, and empty version
\* and description in the row of a file that cannot be read.
OneRowPerAdoFile ==
    /\ \A f \in AdoFiles : Cardinality(RowsOf(f)) = 1
    /\ \A i \in 1..Len(output) :
          /\ output[i].path \in AdoFiles
          /\ output[i].path \in unreadable =>
                output[i].version = <<>> /\ output[i].description = <<>>

\* C5: on a Windows host with the root in place, the run ends with one row
\* for each .ado file of the tree, at any depth, and no other row; a file
\* that cannot be read has its row, with empty version and description.
C5_OneRecordPerAdoFile ==
    (os_name = "nt" /\ root_exists /\ rpc \in {"done", "traceback"})
        => OneRowPerAdoFile

\* The entries of a manifest that loads: relative path and hash of every
\* entry that has both.
ManifestEntries ==
    LET files == files_of(manifest.json.fields["Mirror"]).items
    IN { [relative |-> files[i].fields["RelativePath"].s,
          hash |-> files[i].fields["Hash"].s] :
            i \in { j \in 1..Len(files) :
                      {"RelativePath", "Hash"} \subseteq DOMAIN files[j].fields } }

\* A path string with every "/" turned into "\".
backslashed(s) == [k \in 1..Len(s) |-> IF s[k] = "/" THEN "\\" ELSE s[k]]

\* The manifest holds entries and the relative path of f can be computed.
HasEntriesFor(f) ==
    /\ manifest.file = "json"
    /\ load_hash_index(manifest).raised = ""
    /\ "Mirror" \in DOMAIN manifest.json.fields
    /\ relpath(ado_path_of(f), hash_root) # ValueError

\* C6: the hash column of a row carries the hash of a manifest entry when
\* and only when the lower-cased relative paths are equal, where a
\* difference in case or in the path separator does not count as one.
C6_HashMatchesModuloCaseAndSeparator ==
    \A i \in 1..Len(output) :
        LET f == output[i].path
            relative == relpath(ado_path_of(f), hash_root)
        IN HasEntriesFor(f) =>
            /\ output[i].file_hash # <<>> =>
                 \E e \in ManifestEntries :
                    /\ lower(e.relative) = lower(relative)
                    /\ output[i].file_hash = sanitize(e.hash)
            /\ \A e \in ManifestEntries :
                 backslashed(lower(e.relative)) = backslashed(lower(relative))
                    => output[i].file_hash # <<>>

\* The manifest conditions in which the mapping is to be empty: no file, a
\* file that cannot be read or decoded, no valid JSON, or JSON of another
\* shape than an object whose "Mirror" is an object whose "Files" is a
\* sequence of objects.
ManifestDeviates ==
    \/ manifest.file # "json"
    \/ manifest.json.t # "object"
    \/ "Mirror" \notin DOMAIN manifest.json.fields
    \/ manifest.json.fields["Mirror"].t # "object"
    \/ "Files" \notin DOMAIN manifest.json.fields["Mirror"].fields
    \/ manifest.json.fields["Mirror"].fields["Files"].t # "array"
    \/ \E i \in 1..Len(manifest.json.fields["Mirror"].fields["Files"].items) :
          manifest.json.fields["Mirror"].fields["Files"].items[i].t # "object"

\* C7: under every such condition loading the manifest does not abort the
\* run, the mapping is empty, every row has an empty hash column and the
\* run ends with one row per scanned file.
C7_ManifestNeverAborts ==
    ManifestDeviates =>
        /\ rpc # "traceback"
        /\ rpc \in {"walk", "done"} =>
              /\ hashes = <<>>
              /\ \A i \in 1..Len(output) : output[i].file_hash = <<>>
        /\ rpc = "done" => OneRowPerAdoFile

\* "Summary: computes widgets"
summary_text ==
    <<"S","u","m","m","a","r","y",":"," ","c","o","m","p","u","t","e","s"," ","w","i","d","g","e","t","s">>

\* C8: on the file of the example (a summary comment, a "*! version 2.1"
\* line, a program line) extract_local_metadata returns the description
\* "Summary: computes widgets" and the version "2.1".
C8_HeaderExample ==
    ( /\ mpc = "return"
      /\ readable
      /\ content = <<summary_line, star_bang_version_line, program_line>> )
        => /\ metadata.description = summary_text
           /\ metadata.version = <<"2", ".", "1">>

C9_WitnessDegraded ==
    /\ rpc = "done" /\ manifest.file = "absent"
    /\ \E i \in 1..Len(output) : output[i].path \in unreadable

MetaNext ==
    \/ Open
    \/ LoopLine
    \/ LoopEnd

MetaSpecInit == MetaInit /\ PrunerIdle /\ ReportIdle

SpecMeta == MetaSpecInit /\ [][MetaNext]_vars

====
